---- MODULE Spec2Model ----
(***************************************************************************)
(* Model of the feed polling service of segaab/demo_UI:                    *)
(*   src/src/feed_poller.py   FeedPoller (scheduler, bounded buffer)       *)
(*   src/src/redis_client.py  RedisClient (dedup / recency store)          *)
(*   src/src/main.py          send_to_clients, stream, clear_cache         *)
(*                                                                         *)
(* Conventions.                                                            *)
(*  - An article is a record [url, timestamp].  The timestamp stands for   *)
(*    the instant that datetime.fromisoformat yields for the article's     *)
(*    ISO-8601 string; every timestamp of the model carries a UTC offset,  *)
(*    so any two of them compare.  The uuid4 "id" of an article is unique  *)
(*    per article and is read by no code path of the model, so it is not   *)
(*    represented.                                                         *)
(*  - A coroutine is cut into actions at its awaits that really suspend    *)
(*    (network I/O).  asyncio.Queue() is unbounded, so queue.put never     *)
(*    suspends: send_to_clients runs inside the step that calls it.        *)
(***************************************************************************)
EXTENDS Integers, Sequences, FiniteSets, TLC

\* ------------------------------------------------------------------ bounds
ARTICLES_BUFFER_SIZE == 2
MaxLink == 2
MaxEntries == 2
MaxClients == 2
MaxEvents == 3
MaxDelay == 600
\* The TTL of a Redis key (ex=86400), counted in ticks of the model's clock.
TtlTicks == 2
\* The longest list of tags or categories a feed entry carries.
MaxTags == 2
\* The clock of the model stops at MaxTime seconds of steady state.
MaxTime == 600
\* rss_poller.py line 48 (15 in the source)
REQUIRED_ARTICLES == 2

\* --------------------------------------------------------------- constants
\* config.py lines 116-117, in seconds
INITIAL_RETRY_DELAY == 5
MAX_RETRY_DELAY == 300
\* config.py lines 114-115, the defaults, in seconds
POLLING_INTERVAL == 60
CLOUDFLARE_POLLING_INTERVAL == 300

\* The absent value (a key that does not exist, None).
Null == [url |-> 0, timestamp |-> 0]

RegularFeed == "ambcrypto.com"
CloudflareFeed == "cointelegraph.com"
RSS_FEEDS == {RegularFeed, CloudflareFeed}

\* The feed entries the sources can serve.  An entry is identified by its
\* link; its published date is fixed per link, and two links may carry the
\* same date (links 2k and 2k+1).
Links == 1..MaxLink
TimeOf(link) == (link \div 2) + 1
Entry(link) == [url |-> link, timestamp |-> TimeOf(link)]

\* The UTC offset that the published date of a link carries, in the unit of
\* TimeOf: _parse_date keeps the offset of the feed's date (lines 160-166).
OffsetOf(link) == IF link % 2 = 1 THEN 2 ELSE 0

\* The ISO-8601 string of an article's timestamp as Python compares it: the
\* local date and time first, then the offset.
IsoString(article) ==
    <<article.timestamp + OffsetOf(article.url), OffsetOf(article.url)>>
StrGeq(x, y) == x[1] > y[1] \/ (x[1] = y[1] /\ x[2] >= y[2])
Articles == {Entry(l) : l \in Links}
ClientIds == 1..MaxClients
\* Ids of the articles an earlier run may have left in Redis.
StoredIds == 1..3

\* A feed entry without a link: entry.link raises AttributeError (an entry
\* without a title raises likewise at entry.title, line 248).
MalformedEntry == [url |-> 0, timestamp |-> 1]
Malformed(entry) == entry.url = 0

\* A feed entry with a link and a title but without a date field that parses
\* (timestamp 0: no date).
UndatedEntry(link) == [url |-> link, timestamp |-> 0]
Undated(entry) == entry.url # 0 /\ entry.timestamp = 0

\* FeedPoller._parse_date (lines 150-180).  A date field that parses is
\* returned in ISO format (line 166 or 172).  Without one, line 178 evaluates
\* datetime.timezone.utc, where datetime is the class imported at line 6
\* ("from datetime import datetime"): the class has no attribute timezone,
\* so the expression raises AttributeError outside every try block.
parse_date(entry) ==
    IF Undated(entry) THEN [raised |-> TRUE, timestamp |-> 0]
    ELSE [raised |-> FALSE, timestamp |-> entry.timestamp]

\* A parsed feed document: feed.entries, at least one entry.
DocsUpTo(n) == UNION {[1..k -> Articles] : k \in 1..n}

\* What a source can serve: a regular source up to MaxEntries entries, the
\* Cloudflare-protected one a single entry.
FeedDocs ==
    [f \in RSS_FEEDS |->
        IF f = CloudflareFeed THEN DocsUpTo(1) ELSE DocsUpTo(MaxEntries)]

\* The documents served while the stream handlers are exercised: one entry,
\* or two entries of which the second is the newer one.
StreamDocs ==
    [f \in RSS_FEEDS |->
        IF f = CloudflareFeed THEN {}
        ELSE {<<Entry(1)>>, <<Entry(1), Entry(MaxLink)>>}]

\* The documents served while delivery failures are injected.
FaultDocs ==
    [f \in RSS_FEEDS |->
        IF f = CloudflareFeed THEN {} ELSE {<<Entry(1)>>, <<Entry(1), Entry(2)>>}]

\* The documents served while fetches fail: the Cloudflare-protected source
\* serves one entry.
FetchDocs ==
    [f \in RSS_FEEDS |->
        IF f = CloudflareFeed THEN {<<Entry(1)>>}
        ELSE {<<Entry(1)>>, <<Entry(1), Entry(2)>>}]

\* The documents served while the shutdown is exercised.
ShutdownDocs ==
    [f \in RSS_FEEDS |->
        IF f = CloudflareFeed THEN {} ELSE {<<Entry(1)>>, <<MalformedEntry>>}]

\* The documents served while entries without a date are exercised.
DateDocs ==
    [f \in RSS_FEEDS |->
        IF f = CloudflareFeed THEN {<<Entry(1)>>}
        ELSE {<<Entry(1)>>, <<Entry(1), UndatedEntry(2)>>}]

\* The documents served while malformed entries and Store failures are
\* exercised.
ErrorDocs ==
    [f \in RSS_FEEDS |->
        IF f = CloudflareFeed THEN {<<Entry(1)>>}
        ELSE {<<Entry(1)>>, <<Entry(1), MalformedEntry, Entry(2)>>}]

\* Redis key space: "article:<link>" and "article:<id>"; the uuid4 ids that
\* RSSPoller gives out (rss_poller.py 139, 155), numbered in the order of
\* their creation, are kept apart from those of an earlier run.
LinkKey(link) == <<"url", link>>
IdKey(id) == <<"id", id>>
RedisKeys ==
    {LinkKey(l) : l \in Links} \cup {IdKey(i) : i \in StoredIds}
        \cup {<<"rss", i>> : i \in 1..(REQUIRED_ARTICLES + MaxEntries)}

VARIABLES
    article_buffer,     \* FeedPoller.article_buffer
    is_ready,           \* FeedPoller.is_ready
    redis_kv,           \* Redis string keys "article:*" -> stored article
    recent_articles,    \* Redis sorted set 'recent_articles': {<<member, score>>}
    poll_pc,            \* position of setup / poll_feeds
    task_pc,            \* position of each process_feed task of the gather
    entries,            \* feed_data.entries still to be examined, per task
    new_articles,       \* process_feed's local new_articles, per task
    delay,              \* fetch_feed's local delay, per task
    is_connected,       \* RedisClient.is_connected
    ttl,                \* Redis: ticks a key still has to live (0: no key)
    connected_clients,  \* main.connected_clients (its key set)
    queue,              \* the asyncio.Queue of each stream handler
    stream_pc,          \* position of each stream handler
    sent,               \* events written to each handler's response
    clear_pc,           \* position of the clear_cache request handler
    cleanup_pc,         \* position of cleanup_background_tasks
    clock,              \* datetime.now() and poll_feeds' two time locals
    pub_log,            \* history: messages published while a handler was live
    last_op             \* history: what the last step of process_feed did

vars == <<article_buffer, is_ready, redis_kv, recent_articles, poll_pc,
          task_pc, entries, new_articles, delay, is_connected, ttl,
          connected_clients, queue, stream_pc, sent, clear_pc, cleanup_pc,
          clock, pub_log, last_op>>

taskVars == <<task_pc, entries, new_articles, delay>>
storeVars == <<redis_kv, recent_articles, is_connected, ttl>>
clientVars == <<connected_clients, queue, stream_pc, sent, pub_log>>
requestVars == <<clear_pc, cleanup_pc, clock>>

\* ------------------------------------------------------------ list helpers
TakeLast(s, n) == SubSeq(s, IF Len(s) < n THEN 1 ELSE Len(s) - n + 1, Len(s))

Take(s, n) == SubSeq(s, 1, IF Len(s) < n THEN Len(s) ELSE n)

IsSortedDesc(s) ==
    \A i \in 1..Len(s) : \A j \in 1..Len(s) :
        i < j => s[i].timestamp >= s[j].timestamp

InsertUnsorted(s, a) == Append(s, a)

\* list.sort(key=timestamp, reverse=True): stable, descending.
InsertDesc(s, a) ==
    LET k == Cardinality({i \in 1..Len(s) : s[i].timestamp >= a.timestamp})
    IN  SubSeq(s, 1, k) \o <<a>> \o SubSeq(s, k + 1, Len(s))

RECURSIVE SortDesc(_)
SortDesc(s) ==
    IF s = <<>> THEN <<>>
    ELSE InsertDesc(SortDesc(SubSeq(s, 1, Len(s) - 1)), s[Len(s)])

\* ------------------------------------------------------------- RedisClient
\* ZREVRANGE recent_articles 0 -1: members by score, then member, descending.
RECURSIVE ZRevRange(_)
ZRevRange(zset) ==
    IF zset = {} THEN <<>>
    ELSE LET top == CHOOSE m \in zset : \A o \in zset :
                        \/ m[2] > o[2]
                        \/ m[2] = o[2] /\ m[1] >= o[1]
         IN  <<top[1]>> \o ZRevRange(zset \ {top})

RECURSIVE FetchArticles(_, _)
FetchArticles(ids, kv) ==
    IF ids = <<>> THEN <<>>
    ELSE (IF kv[IdKey(Head(ids))] # Null THEN <<kv[IdKey(Head(ids))]>> ELSE <<>>)
         \o FetchArticles(Tail(ids), kv)

\* zrevrange(key, 0, stop) on the ranked ids: positions 0..stop, where a
\* negative stop counts from the end (-1 is the last position).
RangeTo(ids, stop) ==
    SubSeq(ids, 1, IF stop < 0 THEN Len(ids) + stop + 1
                   ELSE IF stop + 1 > Len(ids) THEN Len(ids) ELSE stop + 1)

\* RedisClient.get_recent_articles (lines 70-79)
get_recent_articles(limit, kv, zset) ==
    FetchArticles(RangeTo(ZRevRange(zset), limit - 1), kv)

\* articles.sort(key=lambda x: x.get('timestamp', ''), reverse=True): the
\* sort key is the string (example_service.py 57).
InsertByString(s, a) ==
    LET k == Cardinality({i \in 1..Len(s) : StrGeq(IsoString(s[i]), IsoString(a))})
    IN  SubSeq(s, 1, k) \o <<a>> \o SubSeq(s, k + 1, Len(s))

RECURSIVE SortByString(_, _)
SortByString(keys, kv) ==
    IF keys = {} THEN <<>>
    ELSE LET k == CHOOSE x \in keys : TRUE
         IN  InsertByString(SortByString(keys \ {k}, kv), kv[k])

\* SimpleRedisClient.get_recent_articles (example_service.py 47-58): every
\* key article:*, sorted by the timestamp string, the first count of them.
simple_get_recent_articles(count, kv) ==
    Take(SortByString({k \in DOMAIN kv : kv[k] # Null}, kv), count)

\* The ids of the ranked articles whose key still exists, best rank first
\* (lines 70-76 without a limit).
RECURSIVE RecentIds(_, _)
RecentIds(ids, kv) ==
    IF ids = <<>> THEN <<>>
    ELSE (IF kv[IdKey(Head(ids))] # Null THEN <<Head(ids)>> ELSE <<>>)
         \o RecentIds(Tail(ids), kv)

\* What an earlier store_article(article) left in Redis for article id i.
StoredArticle(i) == Entry(((i - 1) % MaxLink) + 1)

never_exists(kv, link) == FALSE

\* FeedPoller calls redis_client.is_article_exists and .save_article, which
\* redis_client.RedisClient does not define; they are taken from the client
\* that does define them, example_service.SimpleRedisClient (lines 39-45):
\* exists("article:<link>") and setex("article:<link>", ...).
is_article_exists(kv, link) == kv[LinkKey(link)] # Null
save_article(kv, link, article) == [kv EXCEPT ![LinkKey(link)] = article]

EmptyKv == [k \in RedisKeys |-> Null]

KeepTtl(t, k) == IF t[k] > 0 THEN t ELSE [t EXCEPT ![k] = TtlTicks]

\* SET key value ex=86400 (example_service.py 45, redis_client.py 51): every
\* write gives the key the full TTL again.
SetEx(t, k) == [t EXCEPT ![k] = TtlTicks]

\* -------------------------------------------------------------- broadcaster
UpdateMsg(article) == [type |-> "update", status |-> "", articles |-> <<article>>]
SnapshotMsg(status, arts) == [type |-> "snapshot", status |-> status, articles |-> arts]
\* {"type": "shutdown", "message": "Server shutting down"} (main.py 158)
ShutdownMsg == [type |-> "shutdown", status |-> "", articles |-> <<>>]

send_to_every_queue(q, clients, failing, data) ==
    [c \in ClientIds |-> IF c \notin failing THEN Append(q[c], data) ELSE q[c]]

send_until_failure(q, clients, failing, data) ==
    [c \in ClientIds |->
        IF c \in clients /\ failing \cap clients = {} THEN Append(q[c], data) ELSE q[c]]

send_to_first_client(q, clients, failing, data) ==
    [c \in ClientIds |->
        IF c \in clients /\ (\A d \in clients : c <= d) /\ c \notin failing
        THEN Append(q[c], data) ELSE q[c]]

\* main.send_to_clients lines 42-47: queue.put on every registered client's
\* queue; a client whose put raises gets nothing (and is popped, lines 50-51).
send_to_clients(q, clients, failing, data) ==
    [c \in ClientIds |->
        IF c \in clients /\ c \notin failing THEN Append(q[c], data) ELSE q[c]]

get_initial_articles(ready, buffer) ==
    IF ~ready THEN SnapshotMsg("initializing", <<>>)
    ELSE SnapshotMsg("ready", buffer)

\* main.get_articles (lines 53-76): the answer of the "get current buffer"
\* query; it runs without suspension.
get_articles(ready, buffer) ==
    LET response == get_initial_articles(ready, buffer)
    IN  IF response.status = "initializing"
        THEN [articles |-> <<>>, status |-> "initializing",
              current |-> Len(buffer), http |-> 503]
        ELSE IF Len(response.articles) < ARTICLES_BUFFER_SIZE
        THEN [articles |-> response.articles, status |-> "partial",
              current |-> Len(response.articles), http |-> 206]
        ELSE [articles |-> response.articles, status |-> response.status,
              current |-> Len(response.articles), http |-> 200]

\* --------------------------------------------------------------- FeedPoller
\* op: the step taken; entry, ins, prev, new, clients, failing: what a step of
\* process_feed examined and did; unreachable, ret: whether a RedisClient
\* call could reach Redis, and what it returned; id: the article id a
\* RedisClient call was about; limit: the limit a query was given.
NoOp == [op |-> "none", entry |-> Null, ins |-> "none", prev |-> <<>>,
         new |-> <<>>, clients |-> {}, failing |-> {},
         unreachable |-> FALSE, ret |-> <<>>, id |-> 0, limit |-> 0]

\* Time is counted from the start of steady state (poll_feeds line 361), in
\* seconds.  now: datetime.now(); current_time, last_cloudflare_poll: the
\* locals of poll_feeds; polled_at: history, the time at which the latest
\* steady-state gather of the Cloudflare-protected feeds was started (the
\* start of steady state before the first one).
\* The state after FeedPoller.__init__ and the construction of the client;
\* an earlier run may have left articles in Redis.
InitState ==
    /\ article_buffer = <<>>
    /\ is_ready = FALSE
    /\ \E S \in SUBSET StoredIds :
         /\ redis_kv = [k \in RedisKeys |->
                          IF \E i \in S : k = IdKey(i)
                          THEN StoredArticle(k[2]) ELSE Null]
         /\ recent_articles = {<<i, StoredArticle(i).timestamp>> : i \in S}
    /\ ttl = [k \in RedisKeys |-> IF redis_kv[k] # Null THEN TtlTicks ELSE 0]
    /\ poll_pc = "setup"
    /\ task_pc = [f \in RSS_FEEDS |-> "idle"]
    /\ entries = [f \in RSS_FEEDS |-> <<>>]
    /\ new_articles = [f \in RSS_FEEDS |-> <<>>]
    /\ delay = [f \in RSS_FEEDS |-> INITIAL_RETRY_DELAY]
    /\ connected_clients = {}
    /\ queue = [c \in ClientIds |-> <<>>]
    /\ stream_pc = [c \in ClientIds |-> "new"]
    /\ sent = [c \in ClientIds |-> <<>>]
    /\ clear_pc = "idle"
    /\ cleanup_pc = "idle"
    /\ clock = [now |-> 0, current_time |-> 0, last_cloudflare_poll |-> 0,
                polled_at |-> 0]
    /\ pub_log = [c \in ClientIds |-> <<>>]
    /\ last_op = NoOp

\* The service runs with its RedisClient connected.
Init == InitState /\ is_connected = TRUE

\* initialize_buffer (feed_poller.py 131-148)
initialize_buffer ==
    LET existing_articles ==
            get_recent_articles(ARTICLES_BUFFER_SIZE, redis_kv, recent_articles)
    IN  IF existing_articles # <<>>
        THEN /\ article_buffer' = existing_articles
             /\ is_ready' = TRUE
        ELSE /\ article_buffer' = <<>>
             /\ is_ready' = is_ready

\* FeedPoller.setup (lines 44-57).  With REDIS_CLEAR_ON_START=true it clears
\* the Store instead, which leaves the state that Init has for an empty Store.
Setup ==
    /\ poll_pc = "setup"
    /\ initialize_buffer
    /\ poll_pc' = "start"
    /\ UNCHANGED <<storeVars, taskVars, clientVars, requestVars>>
    /\ last_op' = NoOp

\* Bound of the model: no new cycle is started once a running stream handler
\* has MaxEvents events written or queued.
EventsBelowBound ==
    \A c \in ClientIds :
        stream_pc[c] \in {"initial", "loop"} => Len(sent[c]) + Len(queue[c]) < MaxEvents

\* tasks = [self.process_feed(session, feed_url) for feed_url in feeds]; each
\* task runs to its first suspension, the session.get of fetch_feed.
StartTasks(feeds) ==
    /\ task_pc' = [f \in RSS_FEEDS |-> IF f \in feeds THEN "fetching" ELSE "idle"]
    /\ entries' = [f \in RSS_FEEDS |-> <<>>]
    /\ new_articles' = [f \in RSS_FEEDS |-> <<>>]
    /\ delay' = [f \in RSS_FEEDS |->
                    IF f \in feeds THEN INITIAL_RETRY_DELAY ELSE delay[f]]

GatherDone == \A f \in RSS_FEEDS : task_pc[f] \in {"idle", "done"}

is_cloudflare_feed(f) == f = CloudflareFeed
cloudflare_feeds == {f \in RSS_FEEDS : is_cloudflare_feed(f)}
regular_feeds == {f \in RSS_FEEDS : ~is_cloudflare_feed(f)}

\* poll_feeds lines 349-352: another initial-fill cycle over all feeds
FillCycle(ready) ==
    /\ StartTasks(RSS_FEEDS)
    /\ poll_pc' = "fill_gather"
    /\ is_ready' = ready
    /\ last_op' = [NoOp EXCEPT !.op = "fill_cycle"]

\* poll_feeds lines 364-370: a steady-state iteration polls the regular feeds
SteadyCycle ==
    /\ StartTasks(regular_feeds)
    /\ poll_pc' = "reg_gather"

\* poll_feeds lines 357-370: the fill loop is left, is_ready is set and the
\* first steady-state iteration starts (nothing suspends in between)
FillDone ==
    /\ is_ready' = TRUE
    /\ SteadyCycle
    /\ last_op' = [NoOp EXCEPT !.op = "fill_done"]

FillLoopAnyArticle(buffer, ready) ==
    IF Len(buffer) < 1 THEN FillCycle(ready) ELSE FillDone

\* poll_feeds line 349, the head of the fill loop, with what follows it up to
\* the next suspension.
FillLoop(buffer, ready) ==
    IF Len(buffer) < ARTICLES_BUFFER_SIZE THEN FillCycle(ready) ELSE FillDone

\* poll_feeds lines 343-352: initialize_buffer, then the head of the fill loop
\* (entering the ClientSession does not suspend)
PollStart ==
    /\ poll_pc = "start"
    /\ LET existing_articles ==
               get_recent_articles(ARTICLES_BUFFER_SIZE, redis_kv, recent_articles)
       IN  /\ article_buffer' = existing_articles
           /\ FillLoop(existing_articles,
                       IF existing_articles # <<>> THEN TRUE ELSE is_ready)
    /\ UNCHANGED <<storeVars, clientVars, requestVars>>

\* poll_feeds lines 352-355, 349: the gather returns; below the target size
\* the loop sleeps, otherwise its head is reached at once
FillGatherDone ==
    /\ poll_pc = "fill_gather"
    /\ GatherDone
    /\ EventsBelowBound
    /\ IF Len(article_buffer) < ARTICLES_BUFFER_SIZE
       THEN /\ poll_pc' = "fill_sleep"
            /\ UNCHANGED <<is_ready, taskVars>>
            /\ last_op' = NoOp
       ELSE FillLoop(article_buffer, is_ready)
    /\ UNCHANGED <<article_buffer, storeVars, clientVars, requestVars>>

\* poll_feeds lines 355, 349: asyncio.sleep(5) returns, the head of the loop
FillWake ==
    /\ poll_pc = "fill_sleep"
    /\ EventsBelowBound
    /\ FillLoop(article_buffer, is_ready)
    /\ UNCHANGED <<article_buffer, storeVars, clientVars, requestVars>>

\* poll_feeds lines 373-377: the Cloudflare interval has elapsed
CloudflareCycle ==
    /\ poll_pc = "reg_gather"
    /\ GatherDone
    /\ StartTasks(cloudflare_feeds)
    /\ poll_pc' = "cf_gather"
    /\ UNCHANGED <<article_buffer, is_ready, storeVars, clientVars,
                   requestVars>>
    /\ last_op' = NoOp

\* poll_feeds lines 373, 379-380: the interval has not elapsed, go to sleep
SteadySleep ==
    /\ \/ poll_pc = "reg_gather"
       \/ poll_pc = "cf_gather"
    /\ GatherDone
    /\ poll_pc' = "sleep"
    /\ UNCHANGED <<article_buffer, is_ready, storeVars, taskVars,
                   clientVars, requestVars>>
    /\ last_op' = NoOp

\* poll_feeds lines 380, 364-370: asyncio.sleep(POLLING_INTERVAL) returns and
\* the next steady-state iteration starts
SteadyWake ==
    /\ poll_pc = "sleep"
    /\ EventsBelowBound
    /\ SteadyCycle
    /\ UNCHANGED <<article_buffer, is_ready, storeVars, clientVars, requestVars>>
    /\ last_op' = NoOp

\* ----------------------------------------- poll_feeds with its clock
\* Time passes while a gather is awaited.
Elapse ==
    /\ poll_pc \in {"reg_gather", "cf_gather"}
    /\ ~GatherDone
    /\ clock.now + POLLING_INTERVAL <= MaxTime
    /\ clock' = [clock EXCEPT !.now = clock.now + POLLING_INTERVAL]
    /\ UNCHANGED <<article_buffer, is_ready, storeVars, poll_pc, taskVars,
                   clientVars, clear_pc, cleanup_pc>>
    /\ last_op' = NoOp

\* poll_feeds lines 373-376: the test of the interval, on the current_time
\* read at line 365, is true and the Cloudflare-protected feeds are polled
TimedCloudflareCycle ==
    /\ poll_pc = "reg_gather"
    /\ GatherDone
    /\ clock.current_time - clock.last_cloudflare_poll
            >= CLOUDFLARE_POLLING_INTERVAL
    /\ StartTasks(cloudflare_feeds)
    /\ poll_pc' = "cf_gather"
    /\ clock' = [clock EXCEPT !.polled_at = clock.now]
    /\ UNCHANGED <<article_buffer, is_ready, storeVars, clientVars, clear_pc,
                   cleanup_pc>>
    /\ last_op' = [NoOp EXCEPT !.op = "cloudflare_cycle"]

\* poll_feeds lines 373, 379-380: the test is false, the loop goes to sleep
TimedSkipCloudflare ==
    /\ poll_pc = "reg_gather"
    /\ GatherDone
    /\ clock.current_time - clock.last_cloudflare_poll
            < CLOUDFLARE_POLLING_INTERVAL
    /\ poll_pc' = "sleep"
    /\ UNCHANGED <<article_buffer, is_ready, storeVars, taskVars, clientVars,
                   requestVars>>
    /\ last_op' = NoOp

\* poll_feeds lines 376-380: the Cloudflare gather returns,
\* last_cloudflare_poll = current_time, the loop goes to sleep
TimedCloudflareDone ==
    /\ poll_pc = "cf_gather"
    /\ GatherDone
    /\ poll_pc' = "sleep"
    /\ clock' = [clock EXCEPT !.last_cloudflare_poll = clock.current_time]
    /\ UNCHANGED <<article_buffer, is_ready, storeVars, taskVars, clientVars,
                   clear_pc, cleanup_pc>>
    /\ last_op' = NoOp

\* poll_feeds lines 380, 364-370: asyncio.sleep(POLLING_INTERVAL) returns,
\* current_time = datetime.now() and the regular feeds are polled
TimedSteadyWake ==
    /\ poll_pc = "sleep"
    /\ clock.now + POLLING_INTERVAL <= MaxTime
    /\ SteadyCycle
    /\ clock' = [clock EXCEPT !.now = clock.now + POLLING_INTERVAL,
                              !.current_time = clock.now + POLLING_INTERVAL]
    /\ UNCHANGED <<article_buffer, is_ready, storeVars, clientVars, clear_pc,
                   cleanup_pc>>
    /\ last_op' = [NoOp EXCEPT !.op = "steady_cycle"]

\* ------------------------------------------------- FeedPoller.process_feed
\* Where the entry loop suspends next: line 238 awaits is_article_exists only
\* when the buffer is full, otherwise the next await is save_article (258).
EntryPc(buffer) ==
    IF Len(buffer) >= ARTICLES_BUFFER_SIZE THEN "exists" ELSE "save"

\* Lines 242-258: the article is built, which calls _parse_date (line 251),
\* and save_article is awaited; when _parse_date raises, the error leaves
\* process_feed.
BuildPc(entry) == IF parse_date(entry).raised THEN "date_error" ELSE "save"

\* Lines 234-238: the loop reaches the entry at the head of rest; reading
\* entry.link of a malformed entry raises out of process_feed.
ExaminePc(rest, buffer) ==
    IF Malformed(Head(rest)) THEN "entry_error"
    ELSE IF EntryPc(buffer) = "save" THEN BuildPc(Head(rest))
    ELSE "exists"

\* Lines 262-281, reached without suspension once the entry loop is over:
\* extend, sort, truncate, readiness, and the broadcast of new_articles[0].
\* failing: the clients whose queue.put raises during this broadcast.
InsertAndBroadcast(na, failing) ==
    IF na # <<>>
    THEN /\ article_buffer' =
                Take(SortDesc(article_buffer \o na), ARTICLES_BUFFER_SIZE)
         /\ is_ready' = IF Len(article_buffer') >= ARTICLES_BUFFER_SIZE /\ ~is_ready
                        THEN TRUE ELSE is_ready
         /\ queue' = send_to_clients(queue, connected_clients, failing,
                                     UpdateMsg(na[1]))
         /\ connected_clients' = connected_clients \ failing
         /\ pub_log' = [c \in ClientIds |->
                          IF stream_pc[c] \in {"initial", "loop"}
                          THEN Append(pub_log[c], UpdateMsg(na[1]))
                          ELSE pub_log[c]]
    ELSE UNCHANGED <<article_buffer, is_ready, queue, connected_clients, pub_log>>

\* The loop moves on to the entries that remain after the current one.
Advance(f, op, rest, na, failing) ==
    /\ entries' = [entries EXCEPT ![f] = rest]
    /\ new_articles' = [new_articles EXCEPT ![f] = na]
    /\ delay' = delay
    /\ IF rest = <<>>
       THEN /\ task_pc' = [task_pc EXCEPT ![f] = "done"]
            /\ InsertAndBroadcast(na, failing)
            /\ last_op' = [NoOp EXCEPT
                             !.op = op, !.entry = Head(entries[f]),
                             !.ins = IF na # <<>> THEN "insert" ELSE "none",
                             !.prev = article_buffer, !.new = na,
                             !.clients = connected_clients,
                             !.failing = failing]
       ELSE /\ task_pc' = [task_pc EXCEPT ![f] = ExaminePc(rest, article_buffer)]
            /\ UNCHANGED <<article_buffer, is_ready, queue, connected_clients,
                           pub_log>>
            /\ last_op' = [NoOp EXCEPT
                             !.op = op, !.entry = Head(entries[f]),
                             !.ins = "pending", !.prev = article_buffer,
                             !.new = na, !.clients = connected_clients]

\* fetch_feed returns a parsed feed with entries (lines 225-234)
FetchFeed(f, doc) ==
    /\ task_pc[f] = "fetching"
    /\ poll_pc # "crashed"
    /\ task_pc' = [task_pc EXCEPT ![f] = ExaminePc(doc, article_buffer)]
    /\ entries' = [entries EXCEPT ![f] = doc]
    /\ new_articles' = [new_articles EXCEPT ![f] = <<>>]
    /\ UNCHANGED <<article_buffer, is_ready, storeVars, poll_pc, delay,
                   clientVars, requestVars>>
    /\ last_op' = NoOp

\* fetch_feed lines 122-128: session.get or response.text raises (timeout,
\* transport error); the error is printed and asyncio.sleep(delay) begins
FetchFails(f) ==
    /\ task_pc[f] = "fetching"
    /\ task_pc' = [task_pc EXCEPT ![f] = "backoff"]
    /\ UNCHANGED <<article_buffer, is_ready, storeVars, poll_pc, entries,
                   new_articles, delay, clientVars, requestVars>>
    /\ last_op' = [NoOp EXCEPT !.op = "fetch_error"]

\* delay *= 2 (line 129).  Delays above MaxDelay are not told apart.
NextDelay(d) == IF d > MaxDelay THEN d ELSE d * 2

\* fetch_feed lines 128-129, 93-95: the sleep returns, delay is doubled and
\* the next attempt is issued
RetryWake(f) ==
    /\ task_pc[f] = "backoff"
    /\ task_pc' = [task_pc EXCEPT ![f] = "fetching"]
    /\ delay' = [delay EXCEPT ![f] = NextDelay(delay[f])]
    /\ UNCHANGED <<article_buffer, is_ready, storeVars, poll_pc, entries,
                   new_articles, clientVars, requestVars>>
    /\ last_op' = NoOp

\* fetch_feed lines 118-120 and process_feed 226-228: the response status is
\* not 200, fetch_feed returns None and process_feed returns
FetchNon200(f) ==
    /\ task_pc[f] = "fetching"
    /\ poll_pc # "crashed"
    /\ task_pc' = [task_pc EXCEPT ![f] = "done"]
    /\ UNCHANGED <<article_buffer, is_ready, storeVars, poll_pc, entries,
                   new_articles, delay, clientVars, requestVars>>
    /\ last_op' = [NoOp EXCEPT !.op = "http_error"]

\* fetch_feed returns None or a feed without entries (lines 226-228)
FetchNothing(f) ==
    /\ task_pc[f] = "fetching"
    /\ poll_pc # "crashed"
    /\ task_pc' = [task_pc EXCEPT ![f] = "done"]
    /\ UNCHANGED <<article_buffer, is_ready, storeVars, poll_pc, entries,
                   new_articles, delay, clientVars, requestVars>>
    /\ last_op' = NoOp

\* line 238 with a full buffer: is_article_exists answers true, the entry is
\* skipped (continue)
SkipEntry(f, failing) ==
    /\ task_pc[f] = "exists"
    /\ is_article_exists(redis_kv, Head(entries[f]).url)
    /\ Advance(f, "skip", Tail(entries[f]), new_articles[f], failing)
    /\ UNCHANGED <<storeVars, poll_pc, stream_pc, sent, requestVars>>

\* line 238 with a full buffer: is_article_exists answers false, the entry
\* goes on to save_article
AdmitEntry(f) ==
    /\ task_pc[f] = "exists"
    /\ ~is_article_exists(redis_kv, Head(entries[f]).url)
    /\ task_pc' = [task_pc EXCEPT ![f] = BuildPc(Head(entries[f]))]
    /\ UNCHANGED <<article_buffer, is_ready, storeVars, poll_pc, entries,
                   new_articles, delay, clientVars, requestVars>>
    /\ last_op' = NoOp

\* lines 242-260: the article is written to the Store and collected
SaveEntry(f, failing) ==
    /\ task_pc[f] = "save"
    /\ LET article == Head(entries[f])
       IN  /\ redis_kv' = save_article(redis_kv, article.url, article)
           /\ ttl' = SetEx(ttl, LinkKey(article.url))
           /\ Advance(f, "save", Tail(entries[f]),
                      Append(new_articles[f], article), failing)
    /\ UNCHANGED <<recent_articles, is_connected, poll_pc, stream_pc, sent,
                   requestVars>>

\* ---------------------------------------------------------- Store failures
\* line 238: the call of is_article_exists raises (the backend is
\* unreachable); process_feed has no handler, the task ends with the error
StoreFailsOnExists(f) ==
    /\ task_pc[f] = "exists"
    /\ task_pc' = [task_pc EXCEPT ![f] = "store_error"]
    /\ UNCHANGED <<article_buffer, is_ready, storeVars, poll_pc, entries,
                   new_articles, delay, clientVars, requestVars>>
    /\ last_op' = [NoOp EXCEPT !.op = "store_error", !.unreachable = TRUE]

\* line 258: the call of save_article raises; the task ends with the error
StoreFailsOnSave(f) ==
    /\ task_pc[f] = "save"
    /\ task_pc' = [task_pc EXCEPT ![f] = "store_error"]
    /\ UNCHANGED <<article_buffer, is_ready, storeVars, poll_pc, entries,
                   new_articles, delay, clientVars, requestVars>>
    /\ last_op' = [NoOp EXCEPT !.op = "store_error", !.unreachable = TRUE]

\* initialize_buffer lines 136, 143-148 when the load yields nothing because
\* Redis cannot be reached (get_recent_articles returns [] or raises)
LoadFails == article_buffer' = <<>>

\* FeedPoller.setup with the Store unreachable
SetupStoreDown ==
    /\ poll_pc = "setup"
    /\ LoadFails
    /\ poll_pc' = "start"
    /\ UNCHANGED <<is_ready, storeVars, taskVars, clientVars, requestVars>>
    /\ last_op' = [NoOp EXCEPT !.op = "load", !.unreachable = TRUE]

\* poll_feeds lines 343-352 with the Store unreachable
PollStartStoreDown ==
    /\ poll_pc = "start"
    /\ LoadFails
    /\ FillCycle(is_ready)
    /\ UNCHANGED <<storeVars, clientVars, requestVars>>

TaskRaised(f) == task_pc[f] \in {"entry_error", "date_error", "store_error"}

\* poll_feeds lines 352/370/376 and 382-384: the gather re-raises the error
\* of a task, poll_feeds prints it and raises: the polling task is over and
\* its ClientSession closed; the other tasks of the gather go on.
GatherRaises ==
    /\ poll_pc \in {"fill_gather", "reg_gather", "cf_gather"}
    /\ \E f \in RSS_FEEDS : TaskRaised(f)
    /\ poll_pc' = "crashed"
    /\ UNCHANGED <<article_buffer, is_ready, storeVars, taskVars,
                   clientVars, requestVars>>
    /\ last_op' = NoOp

\* ----------------------------------------------- RedisClient, call by call
StoredKeys == {k \in RedisKeys : redis_kv[k] # Null}

serviceVars == <<article_buffer, is_ready, poll_pc, taskVars, clientVars,
                 requestVars>>

\* ------------------------------------------------- rss_poller.RSSPoller
rss_take_all(buffer, doc) ==
    IF Len(buffer) >= REQUIRED_ARTICLES THEN <<>> ELSE doc

\* fetch_feed lines 135-160: the entries of the document that the loop
\* appends; it breaks at the first entry that finds the buffer at
\* REQUIRED_ARTICLES.  Nothing in the loop suspends (the Redis client is the
\* synchronous one).
rss_new_entries(buffer, doc) ==
    IF Len(buffer) >= REQUIRED_ARTICLES THEN <<>>
    ELSE Take(doc, REQUIRED_ARTICLES - Len(buffer))

\* tasks = [self.fetch_feed(session, url) for url in RSS_FEEDS] (lines 186,
\* 202): every task runs to its session.get.
RssStartTasks ==
    /\ task_pc' = [f \in RSS_FEEDS |-> "rss_get"]
    /\ delay' = [f \in RSS_FEEDS |-> INITIAL_RETRY_DELAY]
    /\ UNCHANGED <<entries, new_articles>>

\* poll_feeds line 196, initialize_buffer lines 184-187: the buffer is empty
\* and the first gather starts
RssInitialize ==
    /\ poll_pc = "setup"
    /\ RssStartTasks
    /\ poll_pc' = "rss_fill_gather"
    /\ UNCHANGED <<article_buffer, is_ready, storeVars, clientVars, requestVars>>
    /\ last_op' = NoOp

\* initialize_buffer lines 185-191 and poll_feeds 200-203: the gather of the
\* initial fill returns; below REQUIRED_ARTICLES the loop sleeps, otherwise
\* the regular cycle starts
RssFillGatherDone ==
    /\ poll_pc = "rss_fill_gather"
    /\ GatherDone
    /\ IF Len(article_buffer) < REQUIRED_ARTICLES
       THEN /\ poll_pc' = "rss_fill_sleep"
            /\ UNCHANGED taskVars
       ELSE /\ poll_pc' = "rss_gather"
            /\ RssStartTasks
    /\ UNCHANGED <<article_buffer, is_ready, storeVars, clientVars, requestVars>>
    /\ last_op' = NoOp

\* initialize_buffer lines 189, 185-187: the sleep returns, the next gather
RssFillWake ==
    /\ poll_pc = "rss_fill_sleep"
    /\ RssStartTasks
    /\ poll_pc' = "rss_fill_gather"
    /\ UNCHANGED <<article_buffer, is_ready, storeVars, clientVars, requestVars>>
    /\ last_op' = NoOp

\* poll_feeds lines 203-206: the gather returns, the loop sleeps
RssCycleDone ==
    /\ poll_pc = "rss_gather"
    /\ GatherDone
    /\ poll_pc' = "rss_sleep"
    /\ UNCHANGED <<article_buffer, is_ready, storeVars, taskVars, clientVars,
                   requestVars>>
    /\ last_op' = NoOp

\* poll_feeds lines 206, 201-203: the sleep returns, the next cycle starts
RssWake ==
    /\ poll_pc = "rss_sleep"
    /\ RssStartTasks
    /\ poll_pc' = "rss_gather"
    /\ UNCHANGED <<article_buffer, is_ready, storeVars, clientVars, requestVars>>
    /\ last_op' = NoOp

\* fetch_feed lines 129-169: the response has status 200 and its text is
\* read; the entries are stored (setex article:<uuid>, lines 153-158) and
\* appended, is_ready is set, the call returns.  The article at position i
\* of the buffer has the i-th id.
RssFetchOk(f, doc) ==
    /\ task_pc[f] = "rss_get"
    /\ LET added == rss_new_entries(article_buffer, doc)
           old == Len(article_buffer)
       IN  /\ article_buffer' = article_buffer \o added
           /\ redis_kv' =
                 [k \in RedisKeys |->
                     IF k[1] = "rss" /\ k[2] > old /\ k[2] <= old + Len(added)
                     THEN added[k[2] - old] ELSE redis_kv[k]]
           /\ ttl' =
                 [k \in RedisKeys |->
                     IF k[1] = "rss" /\ k[2] > old /\ k[2] <= old + Len(added)
                     THEN TtlTicks ELSE ttl[k]]
           /\ is_ready' = IF Len(article_buffer') >= REQUIRED_ARTICLES /\ ~is_ready
                          THEN TRUE ELSE is_ready
           /\ last_op' = [NoOp EXCEPT !.op = "rss_fetch", !.prev = article_buffer,
                                       !.limit = Len(doc)]
    /\ task_pc' = [task_pc EXCEPT ![f] = "done"]
    /\ UNCHANGED <<recent_articles, is_connected, poll_pc, entries,
                   new_articles, delay, clientVars, requestVars>>

\* Lines 129-130: the response has another status.  The if has no else: the
\* response is released (the end of the async with block) ...
RssNon200(f) ==
    /\ task_pc[f] = "rss_get"
    /\ task_pc' = [task_pc EXCEPT ![f] = "rss_release"]
    /\ UNCHANGED <<article_buffer, is_ready, storeVars, poll_pc, entries,
                   new_articles, delay, clientVars, requestVars>>
    /\ last_op' = [NoOp EXCEPT !.op = "http_error"]

\* ... and the while loop of line 127 issues the next session.get at once,
\* with the delay unchanged
RssReleased(f) ==
    /\ task_pc[f] = "rss_release"
    /\ task_pc' = [task_pc EXCEPT ![f] = "rss_get"]
    /\ UNCHANGED <<article_buffer, is_ready, storeVars, poll_pc, entries,
                   new_articles, delay, clientVars, requestVars>>
    /\ last_op' = NoOp

\* Lines 171-178: session.get or response.text raises; above MAX_RETRY_DELAY
\* the call returns, otherwise asyncio.sleep(delay) begins
RssFetchRaises(f) ==
    /\ task_pc[f] = "rss_get"
    /\ task_pc' = [task_pc EXCEPT ![f] =
                      IF delay[f] > MAX_RETRY_DELAY THEN "done" ELSE "rss_backoff"]
    /\ UNCHANGED <<article_buffer, is_ready, storeVars, poll_pc, entries,
                   new_articles, delay, clientVars, requestVars>>
    /\ last_op' = [NoOp EXCEPT !.op = "fetch_error"]

\* Lines 178-179, 127-129: the sleep returns, delay is doubled, next attempt
RssRetryWake(f) ==
    /\ task_pc[f] = "rss_backoff"
    /\ task_pc' = [task_pc EXCEPT ![f] = "rss_get"]
    /\ delay' = [delay EXCEPT ![f] = NextDelay(delay[f])]
    /\ UNCHANGED <<article_buffer, is_ready, storeVars, poll_pc, entries,
                   new_articles, clientVars, requestVars>>
    /\ last_op' = NoOp

RssPollerStep ==
    \/ RssInitialize
    \/ RssFillGatherDone
    \/ RssFillWake
    \/ RssCycleDone
    \/ RssWake

\* The steps of the fetch_feed task of feed f; a source serves a feed of up
\* to MaxEntries entries, or one without entries.
RssTask(f) ==
    \/ \E doc \in DocsUpTo(MaxEntries) \cup {<<>>} : RssFetchOk(f, doc)
    \/ RssNon200(f)
    \/ RssReleased(f)
    \/ RssFetchRaises(f)
    \/ RssRetryWake(f)

\* ------------------------------------------ FeedPoller._extract_categories
\* What a tag list or a category list of a feed entry holds: a string, an
\* object with a term attribute, or something else (no term).
ItemLists ==
    UNION {[1..n -> {[kind |-> k, term |-> t] :
                        k \in {"str", "obj"}, t \in {"Bitcoin", "Markets"}}
                      \cup {[kind |-> "other", term |-> ""]}] : n \in 0..MaxTags}

\* An entry as feedparser yields it: no list without its key, and a single
\* category is one value.
ItemsOf(ck) ==
    IF ck = "absent" THEN {<<>>}
    ELSE IF ck = "single" THEN {it \in ItemLists : Len(it) = 1}
    ELSE ItemLists

\* Line 207
DefaultCategory == [term |-> "Cryptocurrency"]

TermsOf(items) == [i \in 1..Len(items) |-> [term |-> items[i].term]]

\* Lines 188-200: the categories collected inside the try block.  A tag
\* counts when it has the attribute term (lines 190-191); an item of a
\* category list counts when it is a string or has a term (195-198); a
\* single category is taken as it is (line 200).  An error is caught at line
\* 202 and leaves the list as it is.
collected_categories(e) ==
    IF e.raises THEN <<>>
    ELSE IF e.has_tags
    THEN TermsOf(SelectSeq(e.tags, LAMBDA x : x.kind = "obj"))
    ELSE IF e.category = "list"
    THEN TermsOf(SelectSeq(e.items, LAMBDA x : x.kind \in {"str", "obj"}))
    ELSE IF e.category = "single" THEN TermsOf(e.items)
    ELSE <<>>

extract_categories_no_default(e) == collected_categories(e)

\* FeedPoller._extract_categories (lines 182-209)
extract_categories(e) ==
    IF collected_categories(e) = <<>> THEN <<DefaultCategory>>
    ELSE collected_categories(e)

\* _extract_categories as a call of its own (process_feed line 254)
ExtractCategories(e) ==
    /\ last_op' = [NoOp EXCEPT !.op = "extract_categories", !.entry = e,
                                !.ret = extract_categories(e)]
    /\ UNCHANGED <<storeVars, serviceVars>>

\* RedisClient.connect (lines 13-28): from_url and ping succeed or raise
Connect(ok) ==
    /\ is_connected' = ok
    /\ UNCHANGED <<redis_kv, recent_articles, ttl, serviceVars>>
    /\ last_op' = [NoOp EXCEPT !.op = "connect", !.unreachable = ~ok, !.ret = ok]

\* RedisClient.close (lines 30-35)
Close ==
    /\ is_connected' = FALSE
    /\ UNCHANGED <<redis_kv, recent_articles, ttl, serviceVars>>
    /\ last_op' = [NoOp EXCEPT !.op = "close"]

ZAddKeepsOld(zset, member, score) == zset \cup {<<member, score>>}

\* ZADD recent_articles {member: score}: a member has one score
ZAdd(zset, member, score) ==
    {r \in zset : r[1] # member} \cup {<<member, score>>}

\* RedisClient.store_article (lines 37-60) for an article with the given id
\* (0: the article has no id).  raises: the Redis command at which the
\* backend raises, "none" when it does not.
StoreArticle(id, article, raises) ==
    /\ LET reached == is_connected /\ id # 0
       IN  /\ redis_kv' = IF reached /\ raises # "set"
                          THEN [redis_kv EXCEPT ![IdKey(id)] = article]
                          ELSE redis_kv
           /\ ttl' = IF reached /\ raises # "set"
                     THEN SetEx(ttl, IdKey(id)) ELSE ttl
           /\ recent_articles' = IF reached /\ raises = "none"
                                 THEN ZAdd(recent_articles, id, article.timestamp)
                                 ELSE recent_articles
           /\ last_op' = [NoOp EXCEPT
                            !.op = "store_article", !.entry = article,
                            !.id = id,
                            !.prev = RecentIds(ZRevRange(recent_articles),
                                               redis_kv),
                            !.unreachable = ~is_connected \/ (id # 0 /\ raises # "none"),
                            !.ret = reached /\ raises = "none"]
    /\ UNCHANGED <<is_connected, serviceVars>>

\* RedisClient.get_recent_articles (lines 62-82) as a call of its own
GetRecentArticles(limit, raises) ==
    /\ last_op' = [NoOp EXCEPT
                     !.op = "get_recent_articles", !.limit = limit,
                     !.unreachable = ~is_connected \/ raises,
                     !.ret = IF ~is_connected \/ raises THEN <<>>
                             ELSE get_recent_articles(limit, redis_kv,
                                                      recent_articles)]
    /\ UNCHANGED <<storeVars, serviceVars>>

\* RedisClient.clear_cache (lines 84-102).  deleted: the "article:*" keys
\* deleted before the backend raises (all of them when it does not).
ClearCache(deleted, raises) ==
    /\ redis_kv' = IF is_connected
                   THEN [k \in RedisKeys |-> IF k \in deleted THEN Null ELSE redis_kv[k]]
                   ELSE redis_kv
    /\ ttl' = IF is_connected
              THEN [k \in RedisKeys |-> IF k \in deleted THEN 0 ELSE ttl[k]]
              ELSE ttl
    /\ recent_articles' = IF is_connected /\ ~raises THEN {} ELSE recent_articles
    /\ last_op' = [NoOp EXCEPT
                     !.op = "clear_cache",
                     !.unreachable = ~is_connected \/ raises,
                     !.ret = is_connected /\ ~raises]
    /\ UNCHANGED <<is_connected, serviceVars>>

\* SimpleRedisClient.save_article (example_service.py 43-45) as a call of
\* its own: SET article:<link> with ex=86400
SaveArticle(article) ==
    /\ redis_kv' = save_article(redis_kv, article.url, article)
    /\ ttl' = SetEx(ttl, LinkKey(article.url))
    /\ UNCHANGED <<recent_articles, is_connected, serviceVars>>
    /\ last_op' = [NoOp EXCEPT !.op = "save_article", !.entry = article]

\* SimpleRedisClient.is_article_exists (example_service.py 39-41) as a call
\* of its own
IsArticleExists(link) ==
    /\ last_op' = [NoOp EXCEPT
                     !.op = "is_article_exists", !.entry = Entry(link),
                     !.ret = is_article_exists(redis_kv, link)]
    /\ UNCHANGED <<storeVars, serviceVars>>

\* SimpleRedisClient.get_recent_articles as a call of its own
SimpleGetRecentArticles(count) ==
    /\ last_op' = [NoOp EXCEPT
                     !.op = "simple_get_recent_articles", !.limit = count,
                     !.ret = simple_get_recent_articles(count, redis_kv)]
    /\ UNCHANGED <<storeVars, serviceVars>>

\* One tick of time passes: every key has one tick less to live, and a key
\* whose TTL has elapsed is gone.  The members of the sorted set have no TTL.
Tick ==
    /\ \E k \in RedisKeys : ttl[k] > 0
    /\ ttl' = [k \in RedisKeys |-> IF ttl[k] > 0 THEN ttl[k] - 1 ELSE 0]
    /\ redis_kv' = [k \in RedisKeys |-> IF ttl[k] <= 1 THEN Null ELSE redis_kv[k]]
    /\ UNCHANGED <<recent_articles, is_connected, serviceVars>>
    /\ last_op' = [NoOp EXCEPT
                     !.op = "tick", !.ret = {k \in RedisKeys : ttl[k] = 1}]

\* ------------------------------------- the Scheduler's calls on RedisClient
\* The methods that FeedPoller and main call on poller.redis_client:
\* feed_poller.py lines 47, 52, 136, 238, 258 and main.py lines 152, 172.
SchedulerCalls ==
    {"setup", "is_article_exists", "save_article", "get_recent_articles",
     "clear_cache", "close"}

\* What calling the method yields on the RedisClient that FeedPoller.setup
\* has constructed (line 46): redis is None and is_connected is False, so
\* get_recent_articles returns [] (lines 64-66), clear_cache returns False
\* (86-88) and close does nothing (line 32); a method that the class does not
\* define (it defines connect, close, store_article, get_recent_articles and
\* clear_cache, lines 13-84) raises AttributeError.
call_on_redis_client(method) ==
    IF method \notin {"connect", "close", "store_article",
                      "get_recent_articles", "clear_cache"}
    THEN "AttributeError"
    ELSE IF method = "get_recent_articles" THEN "[]"
    ELSE IF method = "clear_cache" THEN "False"
    ELSE "None"

\* One of these calls, on its own: none of them changes the Store.
SchedulerCall(method) ==
    /\ ~is_connected
    /\ last_op' = [NoOp EXCEPT !.op = method,
                                !.ret = call_on_redis_client(method)]
    /\ UNCHANGED <<storeVars, serviceVars>>

\* main.start_background_tasks (131-136) with FeedPoller.setup (44-57) as
\* redis_client.py has RedisClient: line 47 awaits self.redis_client.setup();
\* when the call raises, setup and start_background_tasks end with the error
\* and the polling task is not created.
StartBackgroundTasks ==
    /\ poll_pc = "setup"
    /\ IF call_on_redis_client("setup") = "AttributeError"
       THEN /\ poll_pc' = "setup_error"
            /\ UNCHANGED <<article_buffer, is_ready>>
       ELSE /\ poll_pc' = "start"
            /\ initialize_buffer
    /\ UNCHANGED <<storeVars, taskVars, clientVars, requestVars>>
    /\ last_op' = [NoOp EXCEPT !.op = "setup",
                                !.ret = call_on_redis_client("setup")]

\* ------------------------------------------------------------- clear_cache
\* main.clear_cache line 172: RedisClient.clear_cache deletes article:* and
\* recent_articles
ClearStore ==
    /\ clear_pc = "idle"
    /\ poll_pc \notin {"setup"}
    /\ redis_kv' = EmptyKv
    /\ ttl' = [k \in RedisKeys |-> 0]
    /\ recent_articles' = {}
    /\ clear_pc' = "reset"
    /\ UNCHANGED <<article_buffer, is_ready, is_connected, poll_pc, taskVars,
                   clientVars,
                   cleanup_pc, clock>>
    /\ last_op' = NoOp

\* main.clear_cache line 172 when RedisClient.clear_cache cannot finish: it
\* returns False after deleting some of the keys (none when it is not
\* connected) and leaves recent_articles; the handler ignores the result.
ClearStoreDown(deleted) ==
    /\ clear_pc = "idle"
    /\ poll_pc \notin {"setup"}
    /\ redis_kv' = [k \in RedisKeys |-> IF k \in deleted THEN Null ELSE redis_kv[k]]
    /\ ttl' = [k \in RedisKeys |-> IF k \in deleted THEN 0 ELSE ttl[k]]
    /\ clear_pc' = "reset"
    /\ UNCHANGED <<article_buffer, is_ready, recent_articles, is_connected,
                   poll_pc, taskVars, clientVars,
                   cleanup_pc, clock>>
    /\ last_op' = [NoOp EXCEPT !.op = "clear_cache", !.unreachable = TRUE,
                                !.ret = FALSE]

\* main.clear_cache lines 178-181: the only answer the handler has
ClearCacheResponse ==
    [status |-> "success", message |-> "Cache cleared successfully"]

\* main.clear_cache lines 175-176
ClearBuffer ==
    /\ clear_pc = "reset"
    /\ article_buffer' = <<>>
    /\ is_ready' = FALSE
    /\ clear_pc' = "idle"
    /\ UNCHANGED <<storeVars, poll_pc, taskVars, clientVars,
                   cleanup_pc, clock>>
    /\ last_op' = NoOp

\* The TTL of a key set with ex=86400 elapses: Redis drops the key.
Expire(k) ==
    /\ redis_kv[k] # Null
    /\ redis_kv' = [redis_kv EXCEPT ![k] = Null]
    /\ ttl' = [ttl EXCEPT ![k] = 0]
    /\ UNCHANGED <<article_buffer, is_ready, recent_articles, is_connected,
                   poll_pc, taskVars, clientVars, requestVars>>
    /\ last_op' = NoOp

\* ------------------------------------------- main.cleanup_background_tasks
\* lines 144-152 with the polling task running: cancel() and the await of
\* the task, which ends cancelled together with the tasks of its gather; the
\* CancelledError is caught at line 147 and redis_client.close() is awaited.
CleanupCancel ==
    /\ cleanup_pc = "idle"
    /\ poll_pc \notin {"setup", "crashed"}
    /\ poll_pc' = "cancelled"
    /\ task_pc' = [f \in RSS_FEEDS |-> "idle"]
    /\ cleanup_pc' = "closing"
    /\ UNCHANGED <<article_buffer, is_ready, storeVars, entries, new_articles,
                   delay, clientVars, clear_pc, clock>>
    /\ last_op' = [NoOp EXCEPT !.op = "cancel"]

\* lines 144-146 and 164-165 with the polling task already ended by an
\* exception: cancel() does nothing, the await raises that exception, which
\* is not a CancelledError; the outer handler logs it and the function ends.
CleanupCrashed ==
    /\ cleanup_pc = "idle"
    /\ poll_pc = "crashed"
    /\ cleanup_pc' = "done"
    /\ UNCHANGED <<article_buffer, is_ready, storeVars, poll_pc, taskVars,
                   clientVars, clear_pc, clock>>
    /\ last_op' = [NoOp EXCEPT !.op = "cleanup", !.clients = connected_clients]

\* lines 152-162: close() returns (RedisClient.close, lines 30-35), then the
\* shutdown notice is put on the queue of every client in connected_clients.
CleanupClose ==
    /\ cleanup_pc = "closing"
    /\ is_connected' = FALSE
    /\ queue' = send_to_clients(queue, connected_clients, {}, ShutdownMsg)
    /\ pub_log' = [c \in ClientIds |->
                     IF stream_pc[c] \in {"initial", "loop"}
                     THEN Append(pub_log[c], ShutdownMsg) ELSE pub_log[c]]
    /\ cleanup_pc' = "done"
    /\ UNCHANGED <<article_buffer, is_ready, redis_kv, recent_articles, ttl,
                   poll_pc, taskVars, connected_clients, stream_pc, sent,
                   clear_pc, clock>>
    /\ last_op' = [NoOp EXCEPT !.op = "cleanup", !.clients = connected_clients]

CleanupStep ==
    \/ CleanupCancel
    \/ CleanupCrashed
    \/ CleanupClose

\* -------------------------------------------------------------- main.stream
StreamLive(c) == stream_pc[c] \in {"initial", "loop"}

StreamConnectUnregistered(c) ==
    /\ stream_pc[c] = "new"
    /\ \A d \in ClientIds : d < c => stream_pc[d] # "new"
    /\ poll_pc \notin {"setup"}
    /\ sent' = [sent EXCEPT ![c] = <<get_initial_articles(is_ready, article_buffer)>>]
    /\ stream_pc' = [stream_pc EXCEPT ![c] = "initial"]
    /\ UNCHANGED <<article_buffer, is_ready, storeVars, poll_pc,
                   taskVars, connected_clients, queue, requestVars, pub_log>>
    /\ last_op' = NoOp

\* lines 94-112: the client is registered, the snapshot is taken and handed
\* to response.write (none of lines 94-111 suspends)
StreamConnect(c) ==
    /\ stream_pc[c] = "new"
    /\ \A d \in ClientIds : d < c => stream_pc[d] # "new"
    /\ poll_pc \notin {"setup"}
    /\ connected_clients' = connected_clients \cup {c}
    /\ sent' = [sent EXCEPT ![c] = <<get_initial_articles(is_ready, article_buffer)>>]
    /\ stream_pc' = [stream_pc EXCEPT ![c] = "initial"]
    /\ UNCHANGED <<article_buffer, is_ready, storeVars, poll_pc,
                   taskVars, queue, requestVars, pub_log>>
    /\ last_op' = NoOp

\* line 112: the write of the snapshot returns, the handler enters its loop
StreamInitialWritten(c) ==
    /\ stream_pc[c] = "initial"
    /\ stream_pc' = [stream_pc EXCEPT ![c] = "loop"]
    /\ UNCHANGED <<article_buffer, is_ready, storeVars, poll_pc,
                   taskVars, connected_clients, queue, sent, requestVars, pub_log>>
    /\ last_op' = NoOp

\* lines 116-122: queue.get returns the oldest message and it is written
StreamDeliver(c) ==
    /\ stream_pc[c] = "loop"
    /\ queue[c] # <<>>
    /\ queue' = [queue EXCEPT ![c] = Tail(queue[c])]
    /\ sent' = [sent EXCEPT ![c] = Append(sent[c], Head(queue[c]))]
    /\ UNCHANGED <<article_buffer, is_ready, storeVars, poll_pc,
                   taskVars, connected_clients, stream_pc, requestVars, pub_log>>
    /\ last_op' = NoOp

StreamWriteFailsNoFinally(c) ==
    /\ stream_pc[c] = "loop"
    /\ queue[c] # <<>>
    /\ queue' = [queue EXCEPT ![c] = Tail(queue[c])]
    /\ stream_pc' = [stream_pc EXCEPT ![c] = "closed"]
    /\ UNCHANGED <<article_buffer, is_ready, storeVars, poll_pc,
                   taskVars, connected_clients, sent, requestVars, pub_log>>
    /\ last_op' = NoOp

\* lines 122-126: the write of a dequeued message raises ConnectionResetError
\* (or another error): the loop is left and the finally block runs
StreamWriteFails(c) ==
    /\ stream_pc[c] = "loop"
    /\ queue[c] # <<>>
    /\ queue' = [queue EXCEPT ![c] = Tail(queue[c])]
    /\ connected_clients' = connected_clients \ {c}
    /\ stream_pc' = [stream_pc EXCEPT ![c] = "closed"]
    /\ UNCHANGED <<article_buffer, is_ready, storeVars, poll_pc,
                   taskVars, sent, requestVars, pub_log>>
    /\ last_op' = NoOp

\* lines 112/116, 125-126: the handler is cancelled (peer gone, shutdown) or
\* the snapshot write raises while it is suspended: the finally block runs
StreamAbort(c) ==
    /\ StreamLive(c)
    /\ connected_clients' = connected_clients \ {c}
    /\ stream_pc' = [stream_pc EXCEPT ![c] = "closed"]
    /\ UNCHANGED <<article_buffer, is_ready, storeVars, poll_pc,
                   taskVars, queue, sent, requestVars, pub_log>>
    /\ last_op' = NoOp

\* ----------------------------------------------------------- specification
PollerStep ==
    \/ Setup
    \/ PollStart
    \/ FillGatherDone
    \/ FillWake
    \/ CloudflareCycle
    \/ SteadySleep
    \/ SteadyWake

StoreStep ==
    \/ ClearStore
    \/ ClearBuffer
    \/ \E k \in RedisKeys : Expire(k)

StreamStep ==
    \E c \in ClientIds :
        \/ StreamConnect(c)
        \/ StreamInitialWritten(c)
        \/ StreamDeliver(c)
        \/ StreamWriteFails(c)
        \/ StreamAbort(c)

\* queue.put on an unbounded asyncio.Queue does not raise; the sets of clients
\* whose put raises are {} unless faults are injected.
PutFailures(faults) == IF faults THEN SUBSET connected_clients ELSE {{}}

\* The steps of the process_feed task of feed f.
FeedTask(f, docs, faults) ==
    \/ \E doc \in docs[f] : FetchFeed(f, doc)
    \/ FetchNothing(f)
    \/ \E failing \in PutFailures(faults) : SkipEntry(f, failing)
    \/ AdmitEntry(f)
    \/ \E failing \in PutFailures(faults) : SaveEntry(f, failing)

FeedStep(docs, faults) == \E f \in RSS_FEEDS : FeedTask(f, docs, faults)

\* The steps of fetch_feed that do not yield a feed.
FetchFailure(f) ==
    \/ FetchFails(f)
    \/ RetryWake(f)
    \/ FetchNon200(f)

Next ==
    \/ PollerStep
    \/ StoreStep
    \/ FeedStep(FeedDocs, FALSE)

Spec == Init /\ [][Next]_vars

NextStream ==
    \/ PollerStep
    \/ FeedStep(StreamDocs, FALSE)
    \/ StreamStep

\* The stream handlers are exercised from a Store that holds at most the
\* stored article 1.
InitStream == Init /\ recent_articles \subseteq {<<1, StoredArticle(1).timestamp>>}

SpecStream == InitStream /\ [][NextStream]_vars

NextFault ==
    \/ PollerStep
    \/ FeedStep(FaultDocs, TRUE)
    \/ StreamStep

\* Delivery failures are exercised from a Store that holds the stored
\* article 1.
InitFault == Init /\ {r[1] : r \in recent_articles} = {1}

SpecFault == InitFault /\ [][NextFault]_vars

ErrorStep ==
    \/ SetupStoreDown
    \/ PollStartStoreDown
    \/ GatherRaises
    \/ \E f \in RSS_FEEDS : StoreFailsOnExists(f)
    \/ \E f \in RSS_FEEDS : StoreFailsOnSave(f)
    \/ ClearStore
    \/ \E deleted \in SUBSET StoredKeys : ClearStoreDown(deleted)
    \/ ClearBuffer

NextError ==
    \/ PollerStep
    \/ FeedStep(ErrorDocs, FALSE)
    \/ ErrorStep

SpecError == Init /\ [][NextError]_vars

\* The service with its stream handlers until cleanup_background_tasks has
\* run; a malformed entry ends the polling task.
\* The steps of process_feed over ShutdownDocs: with the one link they
\* serve, an entry examined with a full buffer is always in the Store.
ShutdownFeedStep ==
    \E f \in RSS_FEEDS :
        \/ \E doc \in ShutdownDocs[f] : FetchFeed(f, doc)
        \/ FetchNothing(f)
        \/ SkipEntry(f, {})
        \/ SaveEntry(f, {})

NextShutdown ==
    \/ PollerStep
    \/ ShutdownFeedStep
    \/ GatherRaises
    \/ StreamStep
    \/ CleanupStep

SpecShutdown == InitStream /\ [][NextShutdown]_vars

\* The service fed with entries that have no date.
NextDate ==
    \/ PollerStep
    \/ FeedStep(DateDocs, FALSE)
    \/ GatherRaises

SpecDate == Init /\ [][NextDate]_vars

\* The client right after RedisClient.__init__ (lines 8-11).
InitRedis == InitState /\ is_connected = FALSE

NextRedis ==
    \/ \E ok \in BOOLEAN : Connect(ok)
    \/ Close
    \/ \E id \in {0} \cup StoredIds : \E raises \in {"none", "set", "zadd"} :
          StoreArticle(id, StoredArticle(IF id = 0 THEN 1 ELSE id), raises)
    \/ \E limit \in 1..ARTICLES_BUFFER_SIZE : \E raises \in BOOLEAN :
          GetRecentArticles(limit, raises)
    \/ ClearCache(StoredKeys, FALSE)
    \/ \E deleted \in SUBSET StoredKeys : ClearCache(deleted, TRUE)
    \/ \E k \in RedisKeys : Expire(k)

SpecRedis == InitRedis /\ [][NextRedis]_vars

\* The Store on its own, reachable, with time passing: the calls the
\* Scheduler makes (save_article, is_article_exists) and the listing and
\* clearing of example_service.SimpleRedisClient and RedisClient.
NextStore ==
    \/ \E a \in Articles : SaveArticle(a)
    \/ \E l \in Links : IsArticleExists(l)
    \/ \E count \in 0..ARTICLES_BUFFER_SIZE : SimpleGetRecentArticles(count)
    \/ ClearCache(StoredKeys, FALSE)
    \/ Tick

SpecStore == Init /\ [][NextStore]_vars

\* The ranked Store of RedisClient on its own, reachable, with time passing.
NextRank ==
    \/ \E id \in StoredIds : \E a \in Articles : StoreArticle(id, a, "none")
    \/ \E limit \in 0..ARTICLES_BUFFER_SIZE : GetRecentArticles(limit, FALSE)
    \/ ClearCache(StoredKeys, FALSE)
    \/ Tick

SpecRank == Init /\ [][NextRank]_vars

\* Fetch failures are exercised from an empty Store.
InitFetch == Init /\ recent_articles = {}

\* rss_poller.py on its own (main, lines 208-217), from an empty Store.
NextRss ==
    \/ RssPollerStep
    \/ \E f \in RSS_FEEDS : RssTask(f)

SpecRss == InitFetch /\ [][NextRss]_vars

\* asyncio runs poll_feeds and every fetch_feed task that can take a step.
SpecRssFair ==
    /\ SpecRss
    /\ WF_vars(RssPollerStep)
    /\ \A f \in RSS_FEEDS : WF_vars(RssTask(f))

\* Start-up with the RedisClient of redis_client.py, right after its
\* construction, over what an earlier run left in Redis.
NextStartup ==
    \/ StartBackgroundTasks
    \/ \E method \in SchedulerCalls : SchedulerCall(method)
    \/ \E k \in RedisKeys : Expire(k)

SpecStartup == InitRedis /\ [][NextStartup]_vars

\* The steady state with its clock, from a Store that fills the buffer at
\* start-up; the sources serve nothing new.
InitTimer == Init /\ {r[1] : r \in recent_articles} = StoredIds

NextTimer ==
    \/ Setup
    \/ PollStart
    \/ \E f \in RSS_FEEDS : FetchNothing(f)
    \/ Elapse
    \/ TimedCloudflareCycle
    \/ TimedSkipCloudflare
    \/ TimedCloudflareDone
    \/ TimedSteadyWake

SpecTimer == InitTimer /\ [][NextTimer]_vars

\* _extract_categories applied once to every entry shape (the function has
\* no state: one call says nothing about the next).  Of a feed entry the
\* function reads whether it has the key 'tags' and its list, whether it has
\* the key 'category' and whether that is a list or a single value; reading
\* them may raise.
NextCategories ==
    /\ last_op = NoOp
    /\ \E ht \in BOOLEAN : \E tg \in (IF ht THEN ItemLists ELSE {<<>>}) :
       \E ck \in {"absent", "single", "list"} : \E it \in ItemsOf(ck) :
       \E r \in BOOLEAN :
           ExtractCategories([has_tags |-> ht, tags |-> tg, category |-> ck,
                              items |-> it, raises |-> r])

SpecCategories == InitFetch /\ [][NextCategories]_vars

NextFetch ==
    \/ PollerStep
    \/ FeedStep(FetchDocs, FALSE)
    \/ \E f \in RSS_FEEDS : FetchFailure(f)

SpecFetch == InitFetch /\ [][NextFetch]_vars

\* The event loop runs every task that can take a step: poll_feeds and each
\* process_feed task are scheduled fairly.
SpecFetchFair ==
    /\ SpecFetch
    /\ WF_vars(PollerStep)
    /\ \A f \in RSS_FEEDS :
          WF_vars(FeedTask(f, FetchDocs, FALSE) \/ FetchFailure(f))

\* As SpecFetchFair, and CLOUDFLARE_POLLING_INTERVAL elapses again and again:
\* of the steady-state iterations that reach the test at line 373, some find
\* it true.
SpecTierFair ==
    /\ SpecFetchFair
    /\ SF_vars(CloudflareCycle)

\* ------------------------------------------------------------------ claims
Min(a, b) == IF a < b THEN a ELSE b
Count(s, x) == Cardinality({i \in 1..Len(s) : s[i] = x})
InsertActed == last_op.ins = "insert"
Published == UpdateMsg(last_op.new[1])

NoDuplicateUrl ==
    \A i \in 1..Len(article_buffer) : \A j \in 1..Len(article_buffer) :
        article_buffer[i].url = article_buffer[j].url => i = j

\* C4: when process_feed examines an entry with the buffer at its target size
\* and the entry's link is in the Store, the entry is skipped: the Store is
\* not written, the entry is not collected for insertion, and when nothing
\* else was accepted in the pass the buffer and the queues stay as they are.
ExistingEntrySkipped ==
    [][\A f \in RSS_FEEDS :
        ( /\ task_pc[f] = "exists"
          /\ redis_kv[LinkKey(Head(entries[f]).url)] # Null
          /\ <<task_pc[f], entries[f]>>' # <<task_pc[f], entries[f]>> )
        => /\ redis_kv' = redis_kv
           /\ entries'[f] = Tail(entries[f])
           /\ new_articles'[f] = new_articles[f]
           /\ new_articles[f] = <<>> =>
                /\ article_buffer' = article_buffer
                /\ queue' = queue]_vars

\* C4 witness: an entry whose link is stored has just been skipped with the
\* buffer full, and nothing was inserted.
SkipActed ==
    /\ last_op.op = "skip"
    /\ Len(last_op.prev) >= ARTICLES_BUFFER_SIZE
    /\ redis_kv[LinkKey(last_op.entry.url)] # Null
    /\ last_op.new = <<>>
    /\ article_buffer = last_op.prev

\* C5: every article accepted in a process_feed pass is put on the queue of
\* every subscriber registered at the time of the broadcast.
EveryAcceptedPublished ==
    InsertActed =>
        \A c \in last_op.clients : \A i \in 1..Len(last_op.new) :
            Count(queue[c], UpdateMsg(last_op.new[i])) > 0

\* C6: a published message is put exactly once on the queue of every
\* subscriber whose handler is registered and running, and on no other queue
\* (not on the queue of a subscriber that has been unregistered).
PublishReachesRegistered ==
    [][last_op'.ins = "insert" =>
        \A c \in ClientIds :
            queue'[c] = IF StreamLive(c)
                        THEN Append(queue[c], UpdateMsg(last_op'.new[1]))
                        ELSE queue[c]]_vars

\* C6 witness: a message was just published while one subscriber was
\* registered and another had been unregistered; the first has it at the
\* tail of its queue.
PublishedToOneOfTwo ==
    /\ InsertActed
    /\ \E c \in ClientIds : \E d \in ClientIds :
         /\ c \in last_op.clients
         /\ queue[c] # <<>>
         /\ queue[c][Len(queue[c])] = Published
         /\ stream_pc[d] = "closed"

\* C7: when queue.put fails for some subscribers during a broadcast, exactly
\* those are removed from the registry, every other registered subscriber
\* gets the message, and process_feed completes.
DeliveryFailureContained ==
    [][last_op'.ins = "insert" =>
        /\ connected_clients' = connected_clients \ last_op'.failing
        /\ \A c \in connected_clients \ last_op'.failing :
              queue'[c] = Append(queue[c], UpdateMsg(last_op'.new[1]))
        /\ \A c \in last_op'.failing : queue'[c] = queue[c]
        /\ \E f \in RSS_FEEDS : task_pc[f] # "done" /\ task_pc'[f] = "done"]_vars

\* C7 witness: a broadcast just failed for one of two registered subscribers.
OneDeliveryFailed ==
    /\ InsertActed
    /\ \E c \in last_op.clients : \E d \in last_op.clients :
         /\ c \in last_op.failing
         /\ d \notin last_op.failing
         /\ d \in connected_clients
         /\ c \notin connected_clients

\* C8: for a connected subscriber the first event written is the snapshot,
\* and the events written after it followed by the queued messages are
\* exactly the messages published since its registration, in publish order.
SnapshotThenUpdatesInOrder ==
    \A c \in ClientIds :
        StreamLive(c) =>
            /\ sent[c] # <<>>
            /\ sent[c][1].type = "snapshot"
            /\ Tail(sent[c]) \o queue[c] = pub_log[c]

\* C8 witness: a message was published while the snapshot write of a
\* subscriber was still pending; it waits in the subscriber's queue behind
\* the snapshot.
PublishedDuringSnapshotWrite ==
    \E c \in ClientIds :
        /\ stream_pc[c] = "initial"
        /\ InsertActed
        /\ c \in last_op.clients
        /\ queue[c] = <<Published>>
        /\ Len(sent[c]) = 1

\* C9: a subscriber is in connected_clients exactly while its stream handler
\* is between registration and exit.
RegisteredWhileHandlerRuns ==
    \A c \in ClientIds : c \in connected_clients <=> StreamLive(c)

\* C9 witness: one handler has exited after a failed write and another is
\* still running.
HandlerExited ==
    \E c \in ClientIds : \E d \in ClientIds :
        /\ stream_pc[c] = "closed"
        /\ sent[c] # <<>>
        /\ stream_pc[d] = "loop"
        /\ d \in connected_clients

\* C10: is_ready is true exactly when the buffer holds at least
\* ARTICLES_BUFFER_SIZE articles.
ReadinessDerived ==
    is_ready <=> Len(article_buffer) >= ARTICLES_BUFFER_SIZE

\* C11: the snapshot written first to a subscriber never has status "ready"
\* with fewer than ARTICLES_BUFFER_SIZE articles.
SnapshotReadyMeansFull ==
    \A c \in ClientIds :
        sent[c] # <<>> =>
            ~ ( /\ sent[c][1].status = "ready"
                /\ Len(sent[c][1].articles) < ARTICLES_BUFFER_SIZE )

\* C12: the status get_articles answers follows the buffer: "initializing"
\* for an empty buffer, "partial" for 0 < len < ARTICLES_BUFFER_SIZE, "ready"
\* for len >= ARTICLES_BUFFER_SIZE.
StatusFollowsBuffer ==
    get_articles(is_ready, article_buffer).status =
        IF Len(article_buffer) = 0 THEN "initializing"
        ELSE IF Len(article_buffer) < ARTICLES_BUFFER_SIZE THEN "partial"
        ELSE "ready"

FillPcs == {"start", "fill_gather", "fill_sleep"}

\* C13: while poll_feeds is in its initial-fill phase every cycle it starts
\* polls all sources and follows the start or a pause, and the phase is left
\* for tiered polling only with the buffer at ARTICLES_BUFFER_SIZE or more.
FillUntilCapacity ==
    [][ /\ (poll_pc \in FillPcs /\ poll_pc' \notin FillPcs) =>
              /\ poll_pc' = "reg_gather"
              /\ Len(article_buffer') >= ARTICLES_BUFFER_SIZE
        /\ (poll_pc # "fill_gather" /\ poll_pc' = "fill_gather") =>
              /\ poll_pc \in {"start", "fill_sleep"}
              /\ \A f \in RSS_FEEDS : task_pc'[f] = "fetching"
        /\ (poll_pc = "fill_gather" /\ poll_pc' # "fill_gather") =>
              /\ \A f \in RSS_FEEDS : task_pc[f] = "done"
              /\ poll_pc' = IF Len(article_buffer) < ARTICLES_BUFFER_SIZE
                            THEN "fill_sleep" ELSE "reg_gather"
        /\ (poll_pc \in FillPcs /\ poll_pc' \in FillPcs) =>
              \A f \in RSS_FEEDS : task_pc'[f] = "idle" => task_pc[f] = "idle"
      ]_vars

\* C13 witness: the fill loop has just been left for the first steady-state
\* iteration, with a buffer whose newest article was collected by polling.
SwitchedToSteady ==
    /\ last_op.op = "fill_done"
    /\ poll_pc = "reg_gather"
    /\ Len(article_buffer) >= ARTICLES_BUFFER_SIZE
    /\ redis_kv[LinkKey(article_buffer[1].url)] # Null
    /\ task_pc[CloudflareFeed] = "idle"

\* C14: the delay that fetch_feed waits before its next attempt never
\* exceeds MAX_RETRY_DELAY.
BackoffCapped ==
    \A f \in RSS_FEEDS :
        task_pc[f] = "backoff" => delay[f] <= MAX_RETRY_DELAY

Fetching(f) == task_pc[f] \in {"fetching", "backoff"}

\* C15: a fetch_feed call eventually returns, also when every attempt fails,
\* so that the pass can complete.
FetchReturns ==
    \A f \in RSS_FEEDS : Fetching(f) ~> ~Fetching(f)

\* C16: when the fetches of the regular source never fail, it is polled again
\* and again, whatever happens to the other source.
HealthySourcePolledAgain ==
    [](task_pc[RegularFeed] # "backoff") => []<>(task_pc[RegularFeed] = "fetching")

\* C17: a response with a status other than 200 sends fetch_feed to its
\* backoff sleep, from which the source is tried again.
Non200Retried ==
    [][\A f \in RSS_FEEDS :
        ( /\ task_pc[f] = "fetching"
          /\ task_pc'[f] # "fetching"
          /\ last_op'.op = "http_error" )
        => task_pc'[f] = "backoff"]_vars

\* C18: no pass of process_feed is cut short at a malformed entry: the
\* entries after it are examined.
MalformedEntrySkipped ==
    \A f \in RSS_FEEDS : task_pc[f] # "entry_error"

\* C19: a Store failure in process_feed or initialize_buffer never ends the
\* polling task.
StoreFailureContained ==
    ~ (poll_pc = "crashed" /\ \E f \in RSS_FEEDS : task_pc[f] = "store_error")

\* A value that the RedisClient operation op returns when it succeeds.
SuccessValue(op, ret) ==
    IF op = "get_recent_articles"
    THEN /\ Len(ret) <= ARTICLES_BUFFER_SIZE
         /\ \A i \in 1..Len(ret) : ret[i] \in Articles
    ELSE ret = TRUE

\* C20: what store_article, get_recent_articles and clear_cache return when
\* Redis cannot be reached is not a value they return on success.
UnavailableToldApart ==
    ( /\ last_op.op \in {"store_article", "get_recent_articles", "clear_cache"}
      /\ last_op.unreachable )
    => ~SuccessValue(last_op.op, last_op.ret)

\* C21: is_article_exists(link) answers true exactly while a record written
\* by save_article for that link is unexpired: it is true right after the
\* write, the TTL runs from the last write, and once the TTL has elapsed it
\* is false.
ExistsUntilTtlElapses ==
    /\ \A l \in Links :
          is_article_exists(redis_kv, l) <=> ttl[LinkKey(l)] > 0
    /\ last_op.op = "save_article" =>
          /\ is_article_exists(redis_kv, last_op.entry.url)
          /\ ttl[LinkKey(last_op.entry.url)] = TtlTicks
    /\ last_op.op = "is_article_exists" =>
          (last_op.ret <=> ttl[LinkKey(last_op.entry.url)] > 0)
    /\ last_op.op = "tick" =>
          \A k \in last_op.ret : redis_kv[k] = Null /\ ttl[k] = 0

\* C21 witness: the TTL of a link written by save_article has just elapsed
\* and the link no longer exists, while another link, written later, still
\* does.
ExpiredAfterPut ==
    /\ last_op.op = "tick"
    /\ \E l \in Links : \E m \in Links :
         /\ LinkKey(l) \in last_op.ret
         /\ ~is_article_exists(redis_kv, l)
         /\ is_article_exists(redis_kv, m)
         /\ ttl[LinkKey(m)] < TtlTicks

RecentNewestFirst ==
    ( /\ last_op.op \in {"get_recent_articles", "simple_get_recent_articles"}
      /\ ~last_op.unreachable )
    => /\ Len(last_op.ret) <= last_op.limit
       /\ IsSortedDesc(last_op.ret)
       /\ \A i \in 1..Len(last_op.ret) :
             \E k \in RedisKeys : ttl[k] > 0 /\ redis_kv[k] = last_op.ret[i]

\* C24: when the clear-cache request completes, the Store holds no article
\* and no ranking, the buffer is empty and is_ready is false.
ClearLeavesNothing ==
    [][(clear_pc = "reset" /\ clear_pc' = "idle") =>
          /\ redis_kv' = EmptyKv
          /\ recent_articles' = {}
          /\ article_buffer' = <<>>
          /\ ~is_ready']_vars

\* C25: when cleanup_background_tasks ends, the shutdown notice has been put
\* on the queue of every subscriber registered at that time, and the
\* registry still holds them.
ShutdownNoticeEnqueued ==
    [][(cleanup_pc # "done" /\ cleanup_pc' = "done") =>
          /\ \A c \in connected_clients :
                queue'[c] = Append(queue[c], ShutdownMsg)
          /\ connected_clients' = connected_clients]_vars

\* C26: whenever cleanup_background_tasks ends, also after the polling task
\* has ended with an exception, the polling task is stopped, the Store
\* connection is closed and the shutdown notice is the last message in the
\* queue of every registered subscriber.
TeardownComplete ==
    [][(cleanup_pc # "done" /\ cleanup_pc' = "done") =>
          /\ poll_pc' \in {"cancelled", "crashed"}
          /\ ~is_connected'
          /\ \A c \in connected_clients' :
                /\ queue'[c] # <<>>
                /\ queue'[c][Len(queue'[c])] = ShutdownMsg]_vars

\* C27: article_buffer and is_ready change only in steps of the Scheduler
\* (setup, poll_feeds, process_feed), never in a step of a request handler
\* or of a stream handler.
BufferSingleWriter ==
    [][(article_buffer' # article_buffer \/ is_ready' # is_ready) =>
          /\ clear_pc' = clear_pc
          /\ stream_pc' = stream_pc
          /\ (poll_pc' # poll_pc \/ task_pc' # task_pc)]_vars

\* C29: the two tiers are polled independently: when the fetches of the
\* Cloudflare-protected source never fail, that source is polled again and
\* again, however long a cycle of the regular sources takes.
RestrictedTierPolledAgain ==
    [](task_pc[CloudflareFeed] # "backoff")
        => []<>(task_pc[CloudflareFeed] = "fetching")

\* C30: _parse_date does not fail on an entry without a date that parses:
\* no pass of process_feed ends at the timestamp of such an entry.
UndatedEntryGetsTimestamp ==
    \A f \in RSS_FEEDS : task_pc[f] # "date_error"

CategoriesNonEmpty ==
    last_op.op = "extract_categories" =>
        LET e == last_op.entry
            usable == IF e.raises THEN {}
                      ELSE IF e.has_tags
                      THEN {i \in 1..Len(e.tags) : e.tags[i].kind = "obj"}
                      ELSE IF e.category = "list"
                      THEN {i \in 1..Len(e.items) : e.items[i].kind # "other"}
                      ELSE 1..Len(e.items)
        IN  /\ Len(last_op.ret) >= 1
            /\ usable = {} => last_op.ret = <<DefaultCategory>>
            /\ usable # {} => Len(last_op.ret) = Cardinality(usable)

\* C31 witness: an entry whose tags have no term, and which also has a
\* category field, has been given the default category alone.
DefaultCategoryGiven ==
    /\ last_op.op = "extract_categories"
    /\ last_op.entry.has_tags
    /\ Len(last_op.entry.tags) >= 1
    /\ last_op.entry.category = "single"
    /\ ~last_op.entry.raises
    /\ last_op.ret = <<DefaultCategory>>

\* C32: in steady state a gather of the Cloudflare-protected feeds starts
\* only when at least CLOUDFLARE_POLLING_INTERVAL has passed since the
\* previous one started (or since steady state began); every iteration polls
\* the regular feeds; and an iteration that follows another starts exactly a
\* sleep of POLLING_INTERVAL after the other ended.
TiersKeepTheirIntervals ==
    [][ /\ (poll_pc = "reg_gather" /\ poll_pc' = "cf_gather") =>
              clock.now - clock.polled_at >= CLOUDFLARE_POLLING_INTERVAL
        /\ (poll_pc = "sleep" /\ poll_pc' # "sleep") =>
              /\ poll_pc' = "reg_gather"
              /\ \A f \in regular_feeds : task_pc'[f] = "fetching"
              /\ clock'.now = clock.now + POLLING_INTERVAL
      ]_vars

\* C33: start-up reaches the state where polling starts, not an error state,
\* and no Store operation that the Scheduler calls on its redis_client is
\* missing from RedisClient.
StartupReachesPolling ==
    /\ poll_pc # "setup_error"
    /\ last_op.op \in SchedulerCalls => last_op.ret # "AttributeError"

\* C34: the article that process_feed hands to send_to_clients is in
\* article_buffer when it is broadcast: an article that the truncation has
\* dropped is not published.
PublishedIsBuffered ==
    InsertActed =>
        \E i \in 1..Len(article_buffer) : article_buffer[i] = last_op.new[1]

\* C35: a step of process_feed that finds the buffer at
\* ARTICLES_BUFFER_SIZE leaves it at exactly that length with is_ready true,
\* and only the clear-cache request makes the buffer shorter or takes
\* is_ready back.
FullBufferStaysFull ==
    [][ /\ (Len(article_buffer) >= ARTICLES_BUFFER_SIZE /\ task_pc' # task_pc
              /\ poll_pc' = poll_pc) =>
              /\ Len(article_buffer') = ARTICLES_BUFFER_SIZE
              /\ is_ready'
        /\ (/\ Len(article_buffer) >= ARTICLES_BUFFER_SIZE
            /\ is_ready
            /\ Len(article_buffer') < ARTICLES_BUFFER_SIZE \/ ~is_ready') =>
              (clear_pc = "reset" /\ clear_pc' = "idle")
      ]_vars

\* C36: get_recent_articles(limit) returns min(limit, number of unexpired
\* stored articles) articles, also after other articles have expired.
\* (Stated for limit >= 1; limit 0 is the case of C23.)
RecentReturnsLimit ==
    ( /\ last_op.op = "get_recent_articles"
      /\ ~last_op.unreachable
      /\ last_op.limit >= 1 )
    => Len(last_op.ret) =
          Min(last_op.limit,
              Cardinality({i \in StoredIds : redis_kv[IdKey(i)] # Null}))

\* C37: every call of RSSPoller.fetch_feed returns: after exceptions it
\* sleeps 5, 10, 20, 40, 80, 160 seconds and returns once the delay exceeds
\* MAX_RETRY_DELAY, with non-200 responses it ends too, and so every gather
\* completes.
RssFetchReturns ==
    /\ [](\A f \in RSS_FEEDS :
            task_pc[f] = "rss_backoff" => delay[f] \in {5, 10, 20, 40, 80, 160})
    /\ \A f \in RSS_FEEDS : (task_pc[f] = "rss_get") ~> (task_pc[f] = "done")
    /\ (poll_pc \in {"rss_fill_gather", "rss_gather"}) ~> GatherDone

\* C38: the buffer of RSSPoller never holds more than REQUIRED_ARTICLES
\* articles, and once it holds that many no step changes it or stores an
\* article.
RssBufferFrozenWhenFull ==
    /\ [](Len(article_buffer) <= REQUIRED_ARTICLES)
    /\ [][Len(article_buffer) >= REQUIRED_ARTICLES =>
             /\ article_buffer' = article_buffer
             /\ redis_kv' = redis_kv]_vars

\* C38 witness: a fetch_feed task of a regular cycle has received a feed
\* with entries while the buffer, holding distinct articles, was full, and
\* has returned.
RssFetchedWhenFull ==
    /\ last_op.op = "rss_fetch"
    /\ Len(last_op.prev) = REQUIRED_ARTICLES
    /\ last_op.limit > 0
    /\ poll_pc = "rss_gather"
    /\ \E i \in 1..Len(article_buffer) : \E j \in 1..Len(article_buffer) :
         article_buffer[i] # article_buffer[j]

\* C39: when RedisClient.clear_cache has returned False, the clear-cache
\* request does not answer "success" and does not end with the buffer reset
\* while the Store still holds articles or the ranking.
ClearFailureReported ==
    [][( /\ clear_pc = "reset" /\ clear_pc' = "idle"
         /\ last_op.op = "clear_cache"
         /\ last_op.ret = FALSE )
       => /\ ClearCacheResponse.status # "success"
          /\ ~( /\ article_buffer' = <<>>
                /\ ~is_ready'
                /\ (redis_kv' # EmptyKv \/ recent_articles' # {}) )]_vars

====
